---- MODULE Spec2Model ----
(***************************************************************************)
(* The tree renderer of holoviews/core/pprint.py (class PrettyPrinter).    *)
(*                                                                         *)
(* A hierarchy node is a record holding the capabilities the renderer      *)
(* inspects (hasattr(node, 'children'), hasattr(node, 'main'),             *)
(* node._deep_indexable, hasattr(node, 'unit_format')), its type name, its *)
(* key and value dimension names, its keys() and its data.values().        *)
(* A line is the pair <<level, text>>; text is a string.                   *)
(* Python's None is the empty tuple, a present value x is <<x>>.           *)
(***************************************************************************)
EXTENDS Integers, Sequences, FiniteSets, TLC

VARIABLES node, value_dims, show_options, show_defaults, store,
          lines, text, pc

vars == <<node, value_dims, show_options, show_defaults, store,
          lines, text, pc>>

None == <<>>

Some(x) == <<x>>

(***************************************************************************)
(* Bounds of the input hierarchies.                                        *)
(***************************************************************************)
MaxDepth == 2

(***************************************************************************)
(* Program constants.                                                      *)
(***************************************************************************)
tab == "   "

wrap_count == 100

(***************************************************************************)
(* Sequence helpers (Python list operations).                              *)
(***************************************************************************)
RECURSIVE Flatten(_)
Flatten(ss) == IF ss = <<>> THEN <<>> ELSE Head(ss) \o Flatten(Tail(ss))

RECURSIVE join(_, _)
join(sep, items) ==
  IF items = <<>> THEN ""
  ELSE IF Len(items) = 1 THEN items[1]
  ELSE items[1] \o sep \o join(sep, Tail(items))

RECURSIVE repeat(_, _)
repeat(s, n) == IF n <= 0 THEN "" ELSE s \o repeat(s, n - 1)

ljust(s, width) == s \o repeat(" ", width - Len(s))

RECURSIVE max(_)
max(ns) ==
  IF Len(ns) = 1 THEN ns[1]
  ELSE LET m == max(Tail(ns)) IN IF ns[1] >= m THEN ns[1] ELSE m

\* the first value instead of the last
First(s) == s[1]

\* list(...)[-1]
Last(s) == s[Len(s)]

(***************************************************************************)
(* PrettyPrinter.serialize, shift, padding, component_type.                *)
(***************************************************************************)
serialize(ls) ==
  join("\n", [i \in 1..Len(ls) |-> repeat(tab, ls[i][1]) \o ls[i][2]])

\* a shift that is one level too deep
shift_one_more(ls, by) == [i \in 1..Len(ls) |-> <<ls[i][1] + by + 1, ls[i][2]>>]

shift(ls, by) == [i \in 1..Len(ls) |-> <<ls[i][1] + by, ls[i][2]>>]

\* the length of the first item instead of the greatest length
padding_first(items) == Len(items[1])

padding(items) ==
  IF Len(items) > 1 THEN max([i \in 1..Len(items) |-> Len(items[i])])
  ELSE Len(items[1])

component_type(n) == ":" \o n.type

(***************************************************************************)
(* The option store (holoviews.core.options.Store and Options, which are   *)
(* not part of pprint.py).  A store maps a node's type to the keyword      *)
(* options of each option group, customised and default.                   *)
(***************************************************************************)
option_groups == <<"style", "plot", "norm", "output">>

OptionKeys == <<"alpha", "backend", "cmap", "color", "height", "linewidth",
                "marker", "title", "width">>

NoKw == [k \in {} |-> ""]

Update(a, b) ==
  [k \in DOMAIN a \cup DOMAIN b |-> IF k \in DOMAIN b THEN b[k] ELSE a[k]]

lookup_options(st, n, g, defaults) ==
  IF n.type \notin DOMAIN st \/ g \notin DOMAIN st[n.type] THEN NoKw
  ELSE LET e == st[n.type][g] IN
       IF defaults THEN Update(e.default, e.custom) ELSE e.custom

Options(kw) == [kwargs |-> kw]

RECURSIVE kwitems(_, _)
kwitems(kw, i) ==
  IF i > Len(OptionKeys) THEN <<>>
  ELSE (IF OptionKeys[i] \in DOMAIN kw
        THEN <<OptionKeys[i] \o "=" \o kw[OptionKeys[i]]>> ELSE <<>>)
       \o kwitems(kw, i + 1)

\* str(opts), as the whitespace-separated words textwrap sees
str_words(opts) ==
  LET items == kwitems(opts.kwargs, 1) IN
  IF items = <<>> THEN <<"Options()">>
  ELSE [i \in 1..Len(items) |->
          (IF i = 1 THEN "Options(" ELSE "") \o items[i]
          \o (IF i = Len(items) THEN ")" ELSE ",")]

\* textwrap.TextWrapper(width, subsequent_indent).wrap on words no longer
\* than the width: each line takes the words that fit
RECURSIVE wrap(_, _, _, _)
wrap(words, cur, width, indent) ==
  IF words = <<>> THEN <<cur>>
  ELSE IF Len(cur) + 1 + Len(Head(words)) <= width
       THEN wrap(Tail(words), cur \o " " \o Head(words), width, indent)
       ELSE <<cur>> \o wrap(Tail(words), indent \o Head(words), width, indent)

(***************************************************************************)
(* PrettyPrinter.option_info and format_options.  cls_or_slf carries the   *)
(* parameters show_options and show_defaults, and the store it looks up.   *)
(***************************************************************************)
RECURSIVE merged(_, _, _)
merged(cls_or_slf, n, i) ==
  IF i > Len(option_groups) THEN NoKw
  ELSE Update(lookup_options(cls_or_slf.store, n, option_groups[i],
                             cls_or_slf.show_defaults),
              merged(cls_or_slf, n, i + 1))

DropBackend(kw) == [k \in DOMAIN kw \ {"backend"} |-> kw[k]]

\* an option_info that consults the store whatever show_options is
option_info_always(cls_or_slf, n) ==
  Some(Options(DropBackend(merged(cls_or_slf, n, 1))))

option_info(cls_or_slf, n) ==
  IF ~cls_or_slf.show_options THEN None
  ELSE Some(Options(DropBackend(merged(cls_or_slf, n, 1))))

format_options(opts) ==
  LET words == str_words(opts)
      indent == repeat(" ", Len("Options") + 1)
      wrapped == wrap(Tail(words), Head(words), wrap_count, indent)
  IN [i \in 1..Len(wrapped) |-> " | " \o wrapped[i]]

\* `cls_or_slf.show_options and opts and opts.kwargs`
has_options(cls_or_slf, opts) ==
  cls_or_slf.show_options /\ opts # None /\ DOMAIN opts[1].kwargs # {}

overlay(cls_or_slf, opts, lvl) ==
  IF has_options(cls_or_slf, opts)
  THEN LET fl == format_options(opts[1])
       IN [i \in 1..Len(fl) |-> <<lvl, fl[i]>>]
  ELSE <<>>

(***************************************************************************)
(* PrettyPrinter.element_info.                                             *)
(***************************************************************************)
element_info(cls_or_slf, n, siblings, level, vd) ==
  LET info0 == component_type(n)
      info1 == IF Len(n.kdims) >= 1
               THEN info0 \o tab \o "[" \o join(",", n.kdims) \o "]"
               ELSE info0
      info2 == IF vd /\ Len(n.vdims) >= 1
               THEN info1 \o tab \o "(" \o join(",", n.vdims) \o ")"
               ELSE info1
  IN <<level, << <<level, info2>> >> >>

(***************************************************************************)
(* keys() and get() of a Container.                                        *)
(***************************************************************************)
node_keys(n) == n.keys

node_get(n, attrpath) ==
  LET i == CHOOSE j \in 1..Len(n.keys) : join(".", n.keys[j]) = attrpath
  IN n.data[i]

(***************************************************************************)
(* PrettyPrinter.recurse, node_info, adjointlayout_info, ndmapping_info.   *)
(***************************************************************************)
RECURSIVE recurse(_, _, _, _, _, _, _)
RECURSIVE node_info(_, _, _, _, _, _, _)
RECURSIVE adjointlayout_info(_, _, _, _, _)
RECURSIVE ndmapping_info(_, _, _, _, _)

\* the bracketed key-dimension names of a mapping; first, one that names
\* the first dimension only
key_dim_info_first(n) == "[" \o (IF n.kdims = <<>> THEN "" ELSE n.kdims[1]) \o "]"

key_dim_info(n) == "[" \o join(",", n.kdims) \o "]"

\* a recurse that visits the named children at the level of their parent
recurse_same_level(cls_or_slf, n, attrpath, attrpaths, siblings, level, vd) ==
  LET info == node_info(cls_or_slf, n, attrpath, attrpaths, siblings, level, vd)
      lvl == info[1]
      paths == IF n.has_children
               THEN [i \in 1..Len(node_keys(n)) |-> join(".", node_keys(n)[i])]
               ELSE <<>>
      sibs == [i \in 1..Len(paths) |-> node_get(n, paths[i])]
  IN info[2] \o
     Flatten([i \in 1..Len(paths) |->
                recurse(cls_or_slf, node_get(n, paths[i]), Some(paths[i]),
                        paths, sibs, lvl, vd)])

recurse(cls_or_slf, n, attrpath, attrpaths, siblings, level, vd) ==
  LET info == node_info(cls_or_slf, n, attrpath, attrpaths, siblings, level, vd)
      lvl == info[1]
      paths == IF n.has_children
               THEN [i \in 1..Len(node_keys(n)) |-> join(".", node_keys(n)[i])]
               ELSE <<>>
      sibs == [i \in 1..Len(paths) |-> node_get(n, paths[i])]
  IN info[2] \o
     Flatten([i \in 1..Len(paths) |->
                recurse(cls_or_slf, node_get(n, paths[i]), Some(paths[i]),
                        paths, sibs, lvl + 1, vd)])

node_info(cls_or_slf, n, attrpath, attrpaths, siblings, level, vd) ==
  LET res == IF n.has_children
               THEN <<level, << <<level, component_type(n)>> >>,
                      option_info(cls_or_slf, n)>>
             ELSE IF n.has_main
               THEN adjointlayout_info(cls_or_slf, n, siblings, level, vd)
                    \o <<None>>
             ELSE IF n.deep_indexable
               THEN ndmapping_info(cls_or_slf, n, siblings, level, vd)
                    \o <<None>>
             ELSE IF n.has_unit_format
               THEN <<level, << <<level, n.repr>> >>, None>>
             ELSE element_info(cls_or_slf, n, siblings, level, vd)
                  \o <<option_info(cls_or_slf, n)>>
      lvl == res[1]
      ls == res[2]
      opts == res[3]
      fst_lvl == IF attrpath # None THEN ls[1][1] ELSE level
      ls1 == IF attrpath # None
             THEN << <<ls[1][1],
                       "." \o ljust(attrpath[1], padding(attrpaths)) \o " "
                       \o ls[1][2]>> >> \o Tail(ls)
             ELSE ls
  IN <<lvl, ls1 \o overlay(cls_or_slf, opts, fst_lvl)>>

adjointlayout_info(cls_or_slf, n, siblings, level, vd) ==
  LET first_line == component_type(n)
      additional_lines ==
        Flatten([i \in 1..Len(n.data) |->
                   recurse(cls_or_slf, n.data[i], None, <<>>, <<>>, level,
                           TRUE)])
  IN <<level, << <<level, first_line>> >> \o shift(additional_lines, 1)>>

ndmapping_info(cls_or_slf, n, siblings, level, vd) ==
  LET first_line == component_type(n) \o tab \o key_dim_info(n)
      opts == option_info(cls_or_slf, n)
      ls == << <<level, first_line>> >> \o overlay(cls_or_slf, opts, level)
  IN IF Len(n.data) = 0 THEN <<level, ls>>
     ELSE LET last == Last(n.data)
              additional_lines ==
                IF last.deep_indexable /\ ~last.has_children
                THEN ndmapping_info(cls_or_slf, last, <<>>, level, vd)[2]
                ELSE recurse(cls_or_slf, last, None, <<>>, <<>>, level, vd)
          IN <<level, ls \o shift(additional_lines, 1)>>

pprint(cls_or_slf, n) ==
  serialize(recurse(cls_or_slf, n, None, <<>>, <<>>, 0, TRUE))

(***************************************************************************)
(* The input hierarchies.  Element, Dimension, Layout, AdjointLayout and   *)
(* HoloMap have the capabilities of the holoviews classes of those names;  *)
(* Adjoint is a Composite that is not deep-indexable.                      *)
(***************************************************************************)
Node(type, c, m, d, u, kd, vd, ks, dt, r) ==
  [type |-> type, has_children |-> c, has_main |-> m, deep_indexable |-> d,
   has_unit_format |-> u, kdims |-> kd, vdims |-> vd, keys |-> ks,
   data |-> dt, repr |-> r]

Element(type, kd, vd) ==
  Node(type, FALSE, FALSE, FALSE, FALSE, kd, vd, <<>>, <<>>, "")

Leaf1 == Element("Leaf1", <<>>, <<>>)

Leaf2 == Element("Leaf2", <<>>, <<>>)

Image == Element("Image", <<"x", "y">>, <<"z">>)

Dimension ==
  Node("Dimension", FALSE, FALSE, FALSE, TRUE, <<>>, <<>>, <<>>, <<>>,
       "Dimension('x')")

Roman == <<"I", "II", "III", "IV">>

\* the (group, label) keys a Layout gives its items: the type of the item
\* and its number among the items of that type
LayoutKeys(items) ==
  [i \in 1..Len(items) |->
     <<items[i].type,
       Roman[Cardinality({j \in 1..i : items[j].type = items[i].type})]>>]

Tree(type, ks, items) ==
  Node(type, TRUE, FALSE, FALSE, FALSE, <<>>, <<>>, ks, items, "")

Layout(items) ==
  Node("Layout", TRUE, FALSE, TRUE, FALSE, <<>>, <<>>, LayoutKeys(items),
       items, "")

AdjointLayout(items) ==
  Node("AdjointLayout", FALSE, TRUE, TRUE, FALSE, <<"AdjointLayout">>, <<>>,
       <<>>, items, "")

Adjoint(items) ==
  Node("Adjoint", FALSE, TRUE, FALSE, FALSE, <<>>, <<>>, <<>>, items, "")

Mapping(type, kd, items) ==
  Node(type, FALSE, FALSE, TRUE, FALSE, kd, <<>>, <<>>, items, "")

HoloMap(items) == Mapping("HoloMap", <<"t", "x">>, items)

Leaves == {Leaf1, Image, Dimension}

\* the items a Layout or a Composite holds around one item x: x alone,
\* x first, x last; the entries of a mapping whose last entry is x
KidSeqs(x) == {<<x>>, <<x, Image>>, <<Leaf1, x>>}

EntrySeqs(x) == {<<x>>, <<Leaf1, x>>}

RECURSIVE Hierarchies(_)
Hierarchies(d) ==
  IF d = 0 THEN Leaves
  ELSE LET P == Hierarchies(d - 1)
           kids == UNION {KidSeqs(x) : x \in P}
           entries == UNION {EntrySeqs(x) : x \in P \ {Dimension}}
       IN P \cup {Layout(s) : s \in kids \cup {<<>>}}
            \cup {AdjointLayout(s) : s \in kids}
            \cup {Adjoint(s) : s \in UNION {KidSeqs(x) : x \in P \cap Leaves}}
            \cup {HoloMap(s) : s \in entries \cup {<<>>}}

\* the scenarios of the specification
ScenarioC == Tree("C", << <<"a">>, <<"bb">> >>, <<Leaf1, Leaf2>>)

ScenarioMap == Mapping("Map", <<"x">>, <<Image, Image, Leaf1>>)

\* a mapping whose entries before the last are larger than the last
WideMap == HoloMap(<<Layout(<<Image, Leaf1>>), HoloMap(<<Image>>), Image>>)

Inputs == Hierarchies(MaxDepth) \cup {ScenarioC, ScenarioMap, WideMap}

(***************************************************************************)
(* The contents of the option store.                                       *)
(***************************************************************************)
Entry(custom, default) == [custom |-> custom, default |-> default]

EmptyStore == [t \in {} |-> NoKw]

StoreB ==
  [t \in {"Leaf1", "Leaf2", "C", "Dimension"} |->
     ("style" :> Entry("color" :> "'k'", "marker" :> "'o'"))]

StoreA ==
  [t \in {"Image", "Layout", "HoloMap", "AdjointLayout", "Adjoint",
          "Leaf1", "Map"} |->
     CASE t = "Image" ->
            ("style" :> Entry("cmap" :> "'gray'", "cmap" :> "'fire'" @@ "alpha" :> "1"))
            @@ ("plot" :> Entry("backend" :> "'bokeh'", "width" :> "300"))
       [] t = "Layout" ->
            ("plot" :> Entry("title" :> "'T'" @@ "backend" :> "'bokeh'", NoKw))
       [] t = "HoloMap" ->
            ("style" :> Entry("color" :> "'red'", NoKw))
            @@ ("plot" :> Entry("color" :> "'blue'",
                                "height" :> "200" @@ "width" :> "300"
                                @@ "title" :> "'{label}-{group}-{dimensions}'"
                                @@ "marker" :> "'triangle'"
                                @@ "linewidth" :> "2.5"
                                @@ "cmap" :> "'viridis'"
                                @@ "alpha" :> "0.75"))
       [] t = "AdjointLayout" -> ("plot" :> Entry("width" :> "100", NoKw))
       [] t = "Adjoint" -> ("plot" :> Entry("width" :> "100", NoKw))
       [] t = "Leaf1" -> ("output" :> Entry("backend" :> "'bokeh'", NoKw))
       [] t = "Map" -> ("norm" :> Entry(NoKw, "alpha" :> "0.5"))]

Stores == {EmptyStore, StoreA, StoreB}

(***************************************************************************)
(* The state machine: a renderer configured by its two parameters, a store *)
(* and an input hierarchy; recurse and pprint are the operations.          *)
(***************************************************************************)
Self ==
  [show_options |-> show_options, show_defaults |-> show_defaults,
   store |-> store]

Init ==
  /\ node \in Inputs
  /\ show_options \in BOOLEAN
  /\ show_defaults \in BOOLEAN
  /\ store = StoreA
  /\ value_dims = TRUE
  /\ lines = <<>>
  /\ text = ""
  /\ pc = "idle"

Recurse ==
  /\ pc = "idle"
  /\ \E vd \in BOOLEAN :
       /\ value_dims' = vd
       /\ lines' = recurse(Self, node, None, <<>>, <<>>, 0, vd)
  /\ pc' = "recursed"
  /\ UNCHANGED <<node, show_options, show_defaults, store, text>>

Pprint ==
  /\ pc = "idle"
  /\ text' = pprint(Self, node)
  /\ pc' = "printed"
  /\ UNCHANGED <<node, value_dims, show_options, show_defaults, store, lines>>

Next == Recurse \/ Pprint

Spec == Init /\ [][Next]_vars

(***************************************************************************)
(* The visits of one render, as the code makes them: the calls of recurse  *)
(* (lines 310-315, 391, 412) and the direct calls of ndmapping_info (line  *)
(* 410), in pre-order.  A visit records the node, the arguments of the     *)
(* call, the shift its result receives from the callers (lines 392, 413),  *)
(* and where its block lies in the output: start, len, and own (the lines  *)
(* that precede the blocks of the visits it makes itself).                 *)
(***************************************************************************)
Call(n, attrpath, attrpaths, level, vd, how, via, shd) ==
  [n |-> n, attrpath |-> attrpath, attrpaths |-> attrpaths, level |-> level,
   vd |-> vd, how |-> how, via |-> via, shd |-> shd]

Block(cls_or_slf, c) ==
  IF c.how = "ndmapping_info"
  THEN ndmapping_info(cls_or_slf, c.n, <<>>, c.level, c.vd)[2]
  ELSE recurse(cls_or_slf, c.n, c.attrpath, c.attrpaths, <<>>, c.level, c.vd)

Calls(c) ==
  LET n == c.n IN
  IF c.how = "recurse" /\ n.has_children
  THEN LET paths == [i \in 1..Len(node_keys(n)) |-> join(".", node_keys(n)[i])]
       IN [i \in 1..Len(paths) |->
             Call(node_get(n, paths[i]), Some(paths[i]), paths, c.level + 1,
                  c.vd, "recurse", "named", 0)]
  ELSE IF c.how = "recurse" /\ n.has_main
  THEN [i \in 1..Len(n.data) |->
          Call(n.data[i], None, <<>>, c.level, TRUE, "recurse", "positional", 1)]
  ELSE IF c.how = "ndmapping_info" \/ n.deep_indexable
  THEN IF Len(n.data) = 0 THEN <<>>
       ELSE LET last == Last(n.data) IN
            <<Call(last, None, <<>>, c.level, c.vd,
                   IF last.deep_indexable /\ ~last.has_children
                   THEN "ndmapping_info" ELSE "recurse",
                   "entry", 1)>>
  ELSE <<>>

RECURSIVE Visits(_, _, _, _, _)
RECURSIVE VisitKids(_, _, _, _, _, _)

\* the visits of call c and below; the block of c ends at line end
Visits(cls_or_slf, c, path, end, sh) ==
  LET len == Len(Block(cls_or_slf, c))
      start == end - len + 1
      kids == Calls(c)
      below == VisitKids(cls_or_slf, kids, Len(kids), path, end, sh)
  IN <<[n |-> c.n, attrpath |-> c.attrpath, attrpaths |-> c.attrpaths,
        level |-> c.level, vd |-> c.vd, how |-> c.how, via |-> c.via,
        path |-> path, start |-> start, len |-> len,
        own |-> IF below = <<>> THEN len ELSE below[1].start - start,
        sh |-> sh, nkids |-> Len(kids)]>>
     \o below

\* the visits of kids[1..i] and below; the blocks of the kids end a block:
\* the block of kids[i] ends at line end, and kids[i-1] ends before it
VisitKids(cls_or_slf, kids, i, path, end, sh) ==
  IF i = 0 THEN <<>>
  ELSE LET vs == Visits(cls_or_slf, kids[i], path \o <<i>>, end,
                        sh + kids[i].shd)
       IN VisitKids(cls_or_slf, kids, i - 1, path, vs[1].start - 1, sh) \o vs

RootCall == Call(node, None, <<>>, 0, value_dims, "recurse", "root", 0)

\* the visits of the render whose result is in lines
VS == Visits(Self, RootCall, <<>>, Len(lines), 0)

\* the lines of the output at the place of a visit's block
At(v) == SubSeq(lines, v.start, v.start + v.len - 1)

\* the level of a visit's summary line in the output
Lvl(v) == v.level + v.sh

\* the four variants, by the priority of the classifier
Variant(n) ==
  IF n.has_children THEN "Container"
  ELSE IF n.has_main THEN "Composite"
  ELSE IF n.deep_indexable THEN "IndexedMapping"
  ELSE "LeafLike"

RECURSIVE Subnodes(_)
Subnodes(n) == {n} \cup UNION {Subnodes(n.data[i]) : i \in 1..Len(n.data)}

Rendered == pc = "recursed"

(***************************************************************************)
(* C1.  Indentation invariant: in the lines recurse returns for a root at  *)
(* level 0, every level is >= 0 and every line after the first is at most  *)
(* one level deeper than the line before it.                               *)
(***************************************************************************)
IndentationInvariant ==
  Rendered =>
    \A i \in 1..Len(lines) :
      /\ lines[i][1] >= 0
      /\ i > 1 => lines[i][1] <= lines[i - 1][1] + 1

\* a render, with options shown, of a hierarchy of three variants or more
\* whose lines reach level 2 and then come back
IndentationWitness ==
  /\ Rendered
  /\ show_options
  /\ store = StoreA
  /\ Cardinality({Variant(m) : m \in Subnodes(node)}) >= 3
  /\ \E i \in 2..Len(lines) : lines[i][1] = 2 /\ lines[i - 1][1] = 1
  /\ \E i \in 2..Len(lines) : lines[i][1] < lines[i - 1][1]

(***************************************************************************)
(* C2.  Bounded IndexedMapping expansion: the lines are those of the       *)
(* hierarchy in which every IndexedMapping, at any depth, keeps its last   *)
(* entry only, and those of the hierarchy in which every non-empty         *)
(* IndexedMapping has one more entry in front, whatever that entry is.     *)
(***************************************************************************)
RECURSIVE Prune(_)
Prune(n) ==
  IF Variant(n) = "IndexedMapping" /\ Len(n.data) >= 1
  THEN [n EXCEPT !.data = <<Prune(n.data[Len(n.data)])>>]
  ELSE [n EXCEPT !.data = [i \in 1..Len(n.data) |-> Prune(n.data[i])]]

RECURSIVE Grow(_, _)
Grow(n, x) ==
  IF Variant(n) = "IndexedMapping" /\ Len(n.data) >= 1
  THEN [n EXCEPT !.data = <<x>> \o [i \in 1..Len(n.data) |-> Grow(n.data[i], x)]]
  ELSE [n EXCEPT !.data = [i \in 1..Len(n.data) |-> Grow(n.data[i], x)]]

BoundedExpansion ==
  Rendered =>
    \A m \in {Prune(node), Grow(node, Leaf1), Grow(node, HoloMap(<<Image>>))} :
      recurse(Self, m, None, <<>>, <<>>, 0, value_dims) = lines

\* a mapping of two entries that differ, the last one a mapping of two
\* entries that differ
BoundedExpansionWitness ==
  /\ Rendered
  /\ Variant(node) = "IndexedMapping"
  /\ Len(node.data) > 1
  /\ node.data[1] # Last(node.data)
  /\ Variant(Last(node.data)) = "IndexedMapping"
  /\ Len(Last(node.data).data) > 1
  /\ Last(node.data).data[1] # Last(Last(node.data).data)

(***************************************************************************)
(* C3.  Composite shift invariant, as claimed: the summary line of a       *)
(* Composite with one child or more is the only line of its block at the   *)
(* level of that line; every other line of the block is deeper.            *)
(***************************************************************************)
CompositeShift ==
  Rendered =>
    LET vs == VS IN
    \A k \in 1..Len(vs) :
      Variant(vs[k].n) = "Composite" /\ Len(vs[k].n.data) >= 1 =>
        /\ lines[vs[k].start][1] = Lvl(vs[k])
        /\ \A j \in (vs[k].start + 1)..(vs[k].start + vs[k].len - 1) :
             lines[j][1] >= Lvl(vs[k]) + 1

(***************************************************************************)
(* C4.  Alignment invariant: the first line of the block of each named     *)
(* child of a Container is '.', the child's path segment padded to the     *)
(* greatest length of the segments of that Container, a space, and the     *)
(* child's summary text; and the scenario of Container C prints as given.  *)
(***************************************************************************)
Width(paths) ==
  CHOOSE w \in {Len(paths[j]) : j \in 1..Len(paths)} :
    \A j \in 1..Len(paths) : Len(paths[j]) <= w

Labelled(attrpath, attrpaths, summary) ==
  "." \o attrpath \o repeat(" ", Width(attrpaths) - Len(attrpath)) \o " "
  \o summary

\* the summary text of a node rendered on its own
Summary(n, vd) == recurse(Self, n, None, <<>>, <<>>, 0, vd)[1][2]

Alignment ==
  /\ Rendered =>
       LET vs == VS IN
       \A k \in 1..Len(vs) :
         vs[k].via = "named" =>
           lines[vs[k].start] =
             <<Lvl(vs[k]),
               Labelled(vs[k].attrpath[1], vs[k].attrpaths,
                        Summary(vs[k].n, vs[k].vd))>>
  /\ pc = "printed" /\ node = ScenarioC =>
       text = ":C\n   .a  :Leaf1\n   .bb :Leaf2"

\* a Container of two children whose segments differ in length, the first
\* the shorter, the second a Container whose only segment is shorter than
\* its own
AlignmentWitness ==
  /\ Rendered
  /\ node.has_children
  /\ Len(node.keys) = 2
  /\ Len(join(".", node.keys[1])) < Len(join(".", node.keys[2]))
  /\ node.data[2].has_children
  /\ Len(node.data[2].keys) = 1
  /\ Len(join(".", node.data[2].keys[1])) < Len(join(".", node.keys[2]))

(***************************************************************************)
(* C5.  Overlay-off noninterference: with show_options off, pprint gives   *)
(* the same text for every content of the store and either value of        *)
(* show_defaults, and option_info is None for every node of the input.     *)
(***************************************************************************)
OverlayOff ==
  pc = "printed" /\ ~show_options =>
    /\ \A st \in Stores : \A sd \in BOOLEAN :
         pprint([show_options |-> FALSE, show_defaults |-> sd, store |-> st],
                node) = text
    /\ \A m \in Subnodes(node) : option_info(Self, m) = None

\* a print with options off of a hierarchy that the store has options for,
\* which shows when options are on
OverlayOffWitness ==
  /\ pc = "printed"
  /\ ~show_options
  /\ store = StoreA
  /\ pprint([show_options |-> TRUE, show_defaults |-> show_defaults,
             store |-> store], node) # text

(***************************************************************************)
(* C6.  IndexedMapping summary, as claimed: the summary line is the type   *)
(* tag directly followed by the bracketed key-dimension names, ':Map[x]'   *)
(* for the scenario, whose output is that line and one line at level 1.    *)
(***************************************************************************)
MappingSummaryAsClaimed ==
  Rendered /\ ~show_options /\ node = ScenarioMap =>
    /\ Len(lines) = 2
    /\ lines[1] = <<0, ":Map[x]">>
    /\ lines[2][1] = 1

(***************************************************************************)
(* C6, amended.  The summary line of an IndexedMapping is its type tag,    *)
(* the tab of three spaces and the bracketed, comma-joined key-dimension   *)
(* names in declared order: ':Map   [x]' for the scenario, whose output    *)
(* with options off is that line at level 0 and the line of the last       *)
(* entry at level 1.                                                       *)
(***************************************************************************)
MappingSummary ==
  /\ Rendered /\ Variant(node) = "IndexedMapping" =>
       lines[1] = <<0, ":" \o node.type \o "   " \o "["
                       \o join(",", node.kdims) \o "]">>
  /\ Rendered /\ node.type = "HoloMap" => lines[1][2] = ":HoloMap   [t,x]"
  /\ Rendered /\ ~show_options /\ node = ScenarioMap =>
       lines = << <<0, ":Map   [x]">>, <<1, ":Leaf1">> >>

MappingSummaryWitness ==
  /\ Rendered
  /\ ~show_options
  /\ node = ScenarioMap
  /\ Len(node.data) = 3
  /\ Len(lines) = 2

(***************************************************************************)
(* C7.  Classification priority, as claimed: every visited node is         *)
(* rendered the way the classifier of node_info renders it (Container,     *)
(* else Composite, else IndexedMapping, else Leaf-like); a Composite shows *)
(* its type tag alone and visits each of its positional children.          *)
(***************************************************************************)
ClassificationPriority ==
  Rendered =>
    LET vs == VS IN
    \A k \in 1..Len(vs) :
      /\ At(vs[k]) =
           shift(recurse(Self, vs[k].n, vs[k].attrpath, vs[k].attrpaths, <<>>,
                         vs[k].level, vs[k].vd), vs[k].sh)
      /\ Variant(vs[k].n) = "Composite" =>
           /\ vs[k].nkids = Len(vs[k].n.data)
           /\ lines[vs[k].start][2] =
                IF vs[k].attrpath = None THEN component_type(vs[k].n)
                ELSE Labelled(vs[k].attrpath[1], vs[k].attrpaths,
                              component_type(vs[k].n))

(***************************************************************************)
(* C8.  Value-axes flag, as claimed: the summary line of every Leaf-like   *)
(* element of the output carries the parenthesized value-dimension names   *)
(* exactly when the render was started with value_dims on and the element  *)
(* has a value dimension.                                                  *)
(***************************************************************************)
LeafSummary(n, vd) ==
  ":" \o n.type
  \o (IF Len(n.kdims) >= 1 THEN "   [" \o join(",", n.kdims) \o "]" ELSE "")
  \o (IF vd /\ Len(n.vdims) >= 1 THEN "   (" \o join(",", n.vdims) \o ")" ELSE "")

ValueAxesFlag ==
  Rendered =>
    LET vs == VS IN
    \A k \in 1..Len(vs) :
      Variant(vs[k].n) = "LeafLike" /\ ~vs[k].n.has_unit_format =>
        lines[vs[k].start][2] =
          IF vs[k].attrpath = None THEN LeafSummary(vs[k].n, value_dims)
          ELSE Labelled(vs[k].attrpath[1], vs[k].attrpaths,
                        LeafSummary(vs[k].n, value_dims))

(***************************************************************************)
(* C9.  Overlay placement, as claimed: with show_options on, every visited *)
(* node whose merged option set is not empty has the formatted lines of    *)
(* that set directly after its summary line, at the level of that line and *)
(* before the lines of its children; a node whose merged set is empty has  *)
(* its summary line alone before the lines of its children.                *)
(***************************************************************************)
MergedSet(n) == DropBackend(merged(Self, n, 1))

Formatted(n) ==
  IF DOMAIN MergedSet(n) = {} THEN <<>>
  ELSE format_options(Options(MergedSet(n)))

OverlayPlacement ==
  Rendered /\ show_options =>
    LET vs == VS IN
    \A k \in 1..Len(vs) :
      LET fl == Formatted(vs[k].n) IN
      /\ vs[k].own = 1 + Len(fl)
      /\ \A j \in 1..Len(fl) :
           lines[vs[k].start + j] = <<lines[vs[k].start][1], fl[j]>>

(***************************************************************************)
(* C10.  Container pre-order: the block of a Container rendered at level L *)
(* is its own lines, at level L, followed by the blocks of its named       *)
(* children in the order of its keys, each child once; a child's block is  *)
(* what recurse gives for the child at level L + 1, starts at level L + 1  *)
(* and holds no line above level L + 1.                                    *)
(***************************************************************************)
Paths(n) == [i \in 1..Len(n.keys) |-> join(".", n.keys[i])]

ChildBlocks(v) ==
  [i \in 1..Len(v.n.keys) |->
     shift(recurse(Self, v.n.data[i], Some(Paths(v.n)[i]), Paths(v.n), <<>>,
                   v.level + 1, v.vd), v.sh)]

ContainerPreOrder ==
  Rendered =>
    LET vs == VS IN
    \A k \in 1..Len(vs) :
      vs[k].n.has_children =>
        LET blocks == ChildBlocks(vs[k])
            own == SubSeq(At(vs[k]), 1, vs[k].own)
        IN /\ vs[k].own >= 1
           /\ At(vs[k]) = own \o Flatten(blocks)
           /\ \A j \in 1..Len(own) : own[j][1] = Lvl(vs[k])
           /\ \A i \in 1..Len(blocks) :
                /\ blocks[i][1][1] = Lvl(vs[k]) + 1
                /\ \A j \in 1..Len(blocks[i]) :
                     blocks[i][j][1] >= Lvl(vs[k]) + 1

\* a Container of two children with options shown, the first child a
\* Container of two children below the root
ContainerPreOrderWitness ==
  /\ Rendered
  /\ show_options
  /\ store = StoreA
  /\ node.has_children
  /\ Len(node.keys) = 2
  /\ LET vs == VS IN
     \E k \in 2..Len(vs) :
       /\ vs[k].n = node.data[1]
       /\ vs[k].n.has_children
       /\ Len(vs[k].n.keys) = 2
       /\ Lvl(vs[k]) = 1

====
